---- MODULE Spec2Model ----
(***************************************************************************)
(* Model of github_api/github_client.py: the paginated fetcher             *)
(* (_iter_paginated) and the aggregator (get_user_repo_commits).           *)
(*                                                                         *)
(* Python strings are sequences of text chunks.  Text that the server or   *)
(* the caller chooses (user names, Link headers, URLs inside them) is kept *)
(* character by character; literals of the source are kept as one chunk.   *)
(* An optional value (Python None or a value) is a sequence of length 0 or *)
(* 1.                                                                      *)
(***************************************************************************)
EXTENDS Integers, Sequences, FiniteSets, TLC

VARIABLES
    username,   \* argument of get_user_repo_commits (a Python value)
    pc,         \* position of the run
    phase,      \* "repos" (discovery loop) or "commits" (counting loop)
    next_url,   \* _iter_paginated's next_url (optional string)
    params,     \* _iter_paginated's params: "repo_params", "commit_params", "None"
    resp,       \* _iter_paginated's resp (optional response)
    served,     \* the link entries the server put into resp's Link header
    repos,      \* get_user_repo_commits' repos: sequence of <<name, full_name>>
    idx,        \* position of the counting loop in repos
    count,      \* get_user_repo_commits' count
    results,    \* get_user_repo_commits' results
    ret,        \* the returned list (optional)
    error,      \* the exception that ended the run (optional)
    log         \* every session.get issued so far, with what was answered

vars == <<username, pc, phase, next_url, params, resp, served,
          repos, idx, count, results, ret, error, log>>

-----------------------------------------------------------------------------
(* Bounds of the model *)

MaxRequests == 4

MaxListed == 2

MaxCommits == 2

MaxEntries == 2

-----------------------------------------------------------------------------
(* Python values *)

None == <<>>

Some(x) == <<x>>

PyStr(s) == [type |-> "str", val |-> s]

PyNone == [type |-> "NoneType", val |-> <<>>]

PyInt == [type |-> "int", val |-> <<>>]

IsStr(v) == v.type = "str"

IsWhitespace(c) == c \in {" ", "\t", "\n"}

RECURSIVE LStrip(_)
LStrip(s) ==
    IF s # <<>> /\ IsWhitespace(Head(s)) THEN LStrip(Tail(s)) ELSE s

RECURSIVE RStrip(_)
RStrip(s) ==
    IF s # <<>> /\ IsWhitespace(s[Len(s)])
    THEN RStrip(SubSeq(s, 1, Len(s) - 1))
    ELSE s

\* str.strip()
Strip(s) == RStrip(LStrip(s))

\* str.find(c, start) for a one-character c: 0-based index, -1 when absent
Find(s, c, start) ==
    LET hits == {i \in start .. (Len(s) - 1) : s[i + 1] = c}
    IN  IF hits = {} THEN -1 ELSE CHOOSE i \in hits : \A j \in hits : i <= j

\* s[start:end] with 0 <= start <= end <= len(s)
Slice(s, start, end) == SubSeq(s, start + 1, end)

\* needle in s
Contains(s, needle) ==
    \E i \in 0 .. (Len(s) - Len(needle)) : Slice(s, i, i + Len(needle)) = needle

\* str.split(c) for a one-character separator c
RECURSIVE Split(_, _)
Split(s, c) ==
    LET i == Find(s, c, 0)
    IN  IF i = -1 THEN <<s>>
        ELSE <<Slice(s, 0, i)>> \o Split(Slice(s, i + 1, Len(s)), c)

RECURSIVE Concat(_)
Concat(ss) == IF ss = <<>> THEN <<>> ELSE Head(ss) \o Concat(Tail(ss))

RECURSIVE Join(_, _)
Join(ss, sep) ==
    IF ss = <<>> THEN <<>>
    ELSE IF Len(ss) = 1 THEN ss[1]
    ELSE ss[1] \o sep \o Join(Tail(ss), sep)

-----------------------------------------------------------------------------
(* The Link header *)

RelNextText == <<"r", "e", "l", "=", "\"", "n", "e", "x", "t", "\"">>

RelText(rel) == <<"r", "e", "l", "=", "\"">> \o rel \o <<"\"">>

\* one entry of the header: <url>; rel="relation"
FormatEntry(e) == <<"<">> \o e.url \o <<">", ";", " ">> \o RelText(e.rel)

\* the header of a response that lists the entries es; no header without entries
FormatLink(es) ==
    IF es = <<>> THEN None
    ELSE Some(Join([i \in 1 .. Len(es) |-> FormatEntry(es[i])], <<",", " ">>))

\* resp.headers.get("Link", "")
HeaderGet(r) == IF r.link = None THEN <<>> ELSE r.link[1]

\* the URL of one part that holds rel="next"
PartUrl(part) ==
    LET start == Find(part, "<", 0) + 1
        end   == Find(part, ">", start)
    IN  IF start > 0 /\ end > start THEN Some(Slice(part, start, end)) ELSE None

\* the next_url computed from the Link header after a page
NextLink(link) ==
    IF link = <<>> THEN None
    ELSE LET raw   == Split(link, ",")
             parts == [i \in 1 .. Len(raw) |-> Strip(raw[i])]
             hits  == {i \in 1 .. Len(parts) : Contains(parts[i], RelNextText)}
         IN  IF hits = {} THEN None
             ELSE PartUrl(parts[CHOOSE i \in hits : \A j \in hits : i <= j])

-----------------------------------------------------------------------------
(* Responses *)

\* Response.ok: requests raises for status 400..599 only; the tests' FakeResponse
\* answers 200 <= status_code < 300
RequestsOk(r) == ~(400 <= r.status /\ r.status < 600)

FakeOk(r) == 200 <= r.status /\ r.status < 300

Ok(r) == IF r.cls = "requests" THEN RequestsOk(r) ELSE FakeOk(r)

NoError == [type |-> "", where |-> "", text |-> <<>>]

Exception(type, where, text) == [type |-> type, where |-> where, text |-> text]

GitHubAPIError(text) == Exception("GitHubAPIError", "fetch", text)

NoJson == [kind |-> "none", items |-> <<>>, message |-> None]

\* resp.json(): requests decodes the body text and raises on text that is not
\* JSON; FakeResponse hands back its json_data, None when it was given none
Json(r) ==
    IF r.body.kind = "text"
    THEN IF r.cls = "requests"
         THEN [raised |-> TRUE, val |-> NoJson,
               error |-> Exception("JSONDecodeError", "fetch", <<>>)]
         ELSE [raised |-> FALSE, val |-> NoJson, error |-> NoError]
    ELSE [raised |-> FALSE, error |-> NoError,
          val |-> [kind |-> r.body.kind, items |-> r.body.items,
                   message |-> r.body.message]]

\* the exception is swallowed and the response taken for an empty page
RaiseSwallowed(e) == [raised |-> FALSE, error |-> NoError, page |-> <<>>]

Raise(e) == [raised |-> TRUE, error |-> e, page |-> <<>>]

Yield(page) == [raised |-> FALSE, error |-> NoError, page |-> page]

NotFoundText == <<"Resource not found (404). Check username/repository.">>

DefaultForbiddenText == "Forbidden or rate limited"

ShapeText == <<"Unexpected response shape: expected a list.">>

\* the 404 check is missing
IsNotFoundNever(r) == FALSE

IsNotFound(r) == r.status = 404

IsForbidden(r) == r.status = 403

\* msg = resp.json().get("message", "Forbidden or rate limited"); raise ...
Forbidden(r) ==
    LET j == Json(r)
    IN  IF j.raised THEN Raise(j.error)
        ELSE IF j.val.kind # "dict"
        THEN Raise(Exception("AttributeError", "fetch", <<>>))
        ELSE Raise(GitHubAPIError(
                 <<"GitHub API error 403: ",
                   IF j.val.message = None THEN DefaultForbiddenText
                   ELSE j.val.message[1]>>))

UnexpectedStatus(r) ==
    Raise(GitHubAPIError(
        <<"GitHub API error ", ToString(r.status), ": ", r.body.text>>))

\* page = resp.json(); the isinstance(page, list) check
Decode(r) ==
    LET j == Json(r)
    IN  IF j.raised THEN Raise(j.error)
        ELSE IF j.val.kind # "list" THEN Raise(GitHubAPIError(ShapeText))
        ELSE Yield(j.val.items)

\* what one turn of the loop does with the response, up to the yield
Handle(r) ==
    IF IsNotFound(r) THEN Raise(GitHubAPIError(NotFoundText))
    ELSE IF IsForbidden(r) THEN Forbidden(r)
    ELSE IF ~Ok(r) THEN UnexpectedStatus(r)
    ELSE Decode(r)

\* while next_url:
Truthy(u) == u # None /\ u[1] # <<>>

-----------------------------------------------------------------------------
(* The aggregator's helpers *)

\* the username is not stripped before the emptiness test
ValidUsernameNoStrip(u) == IsStr(u) /\ u.val # <<>>

ValidUsername(u) == IsStr(u) /\ Strip(u.val) # <<>>

ValueError ==
    Exception("ValueError", "validate", <<"username must be a non-empty string">>)

ReposUrl(u) == <<"https://api.github.com/users/">> \o u \o <<"/repos">>

CommitsUrl(full_name) ==
    <<"https://api.github.com/repos/">> \o full_name \o <<"/commits">>

\* repo.get(key): only a dict has get; a key that is absent gives None
HasGet(rec) == rec.type = "dict"

\* dict.get gives None for a key that is absent
DictGet(v) == IF v.type = "absent" THEN PyNone ELSE v

\* the isinstance checks on name and full_name
Discoverable(rec) == IsStr(DictGet(rec.name)) /\ IsStr(DictGet(rec.full_name))

\* the repository is put in front of the list
AppendRepoFront(rs, rec) == <<<<rec.name.val, rec.full_name.val>>>> \o rs

AppendRepo(rs, rec) == Append(rs, <<rec.name.val, rec.full_name.val>>)

\* the inner loop over one listing page
RECURSIVE Discover(_, _)
Discover(rs, page) ==
    IF page = <<>> THEN [raised |-> FALSE, repos |-> rs]
    ELSE IF ~HasGet(Head(page)) THEN [raised |-> TRUE, repos |-> rs]
    ELSE Discover(IF Discoverable(Head(page)) THEN AppendRepo(rs, Head(page))
                  ELSE rs,
                  Tail(page))

\* a page counts as one commit
AddPageOnce(c, page) == c + 1

\* count += len(page)
AddPage(c, page) == c + Len(page)

\* count = 0 at the start of each repository
FreshCount(c) == 0

RepoCommits(name, commit_count) == [name |-> name, commit_count |-> commit_count]

-----------------------------------------------------------------------------
(* The inputs: the caller's arguments and what the server answers *)

Usernames ==
    {PyNone, PyInt, PyStr(<<>>), PyStr(<<" ">>), PyStr(<<"j">>)}

RelNext == <<"n", "e", "x", "t">>

RelLast == <<"l", "a", "s", "t">>

UrlNext == <<"n">>

UrlLast == <<"z">>

UrlComma == <<"n", ",", "m">>

UrlEmpty == <<>>

Entry(url, rel) == [url |-> url, rel |-> rel]

\* the Link entries a server of the runs may send: none, the tests' pair
\* (next then last), and a next URL that holds a comma
LinkChoices ==
    { <<>>,
      <<Entry(UrlNext, RelNext), Entry(UrlLast, RelLast)>>,
      <<Entry(UrlComma, RelNext)>> }

Absent == [type |-> "absent", val |-> <<>>]

Record(name, full_name) == [type |-> "dict", name |-> name, full_name |-> full_name]

RepoA == Record(PyStr(<<"A">>), PyStr(<<"j", "/", "A">>))

RepoB == Record(PyStr(<<"B">>), PyStr(<<"j", "/", "B">>))

\* a listing record without a name, and one whose full_name is a number:
\* neither is discovered
RepoNoName == Record(Absent, PyStr(<<"j", "/", "C">>))

RepoBadFull == Record(PyStr(<<"D">>), PyInt)

\* a listing record that is no mapping (a JSON string or null)
NotADict == [type |-> "str", name |-> Absent, full_name |-> Absent]

\* a commit record: a mapping with a sha and neither name nor full_name
Commit == Record(Absent, Absent)

ListingRecords == {RepoA, RepoB, RepoNoName, RepoBadFull, NotADict}

SeqsUpTo(S, n) == UNION {[1 .. k -> S] : k \in 0 .. n}

ListBody(items) ==
    [kind |-> "list", items |-> items, message |-> None, text |-> "<json list>"]

DictBody(message) ==
    [kind |-> "dict", items |-> <<>>, message |-> message, text |-> "<json object>"]

TextBody == [kind |-> "text", items |-> <<>>, message |-> None, text |-> "<html>"]

RateLimitText == "API rate limit exceeded"

RECURSIVE SumLen(_)
SumLen(pages) ==
    IF pages = <<>> THEN 0 ELSE Len(Head(pages).body.items) + SumLen(Tail(pages))

\* the records the server has served so far to the requests of phase ph
Served(ph) == SumLen(SelectSeq(log, LAMBDA e : e.phase = ph))

\* the pages the server may still serve: at most MaxListed listing records and
\* MaxCommits commit records in one run
Pages(ph) ==
    IF ph = "repos"
    THEN SeqsUpTo(ListingRecords, MaxListed - Served("repos"))
    ELSE SeqsUpTo({Commit}, MaxCommits - Served("commits"))

Answer(cls, status, body, entries) ==
    [cls |-> cls, status |-> status, body |-> body, entries |-> entries]

\* What the server may answer to one request of phase ph.  The class of the
\* response object is requests.Response, or the tests' FakeResponse where the
\* two differ (a status outside 200..299 and 400..599, a body that is no JSON).
Answers(ph) ==
    {Answer("requests", 200, ListBody(p), es) : p \in Pages(ph), es \in LinkChoices}
    \cup {Answer(c, 200, TextBody, <<>>) : c \in {"requests", "fake"}}
    \cup {Answer(c, 304, ListBody(<<>>), <<>>) : c \in {"requests", "fake"}}
    \cup {Answer("requests", 403, b, <<>>) :
            b \in {DictBody(Some(RateLimitText)), DictBody(None), ListBody(<<>>)}}
    \cup {Answer("requests", 404, DictBody(Some("Not Found")), <<>>)}
    \cup {Answer("requests", 500, TextBody, <<>>)}

\* the response object of an answer: its Link header is the formatted entries
Response(a) ==
    [cls |-> a.cls, status |-> a.status, body |-> a.body,
     link |-> FormatLink(a.entries)]

-----------------------------------------------------------------------------
(* The run of get_user_repo_commits *)

Init ==
    /\ username \in Usernames
    /\ pc = "call"
    /\ phase = "none"
    /\ next_url = None
    /\ params = "None"
    /\ resp = None
    /\ served = <<>>
    /\ repos = <<>>
    /\ idx = 0
    /\ count = 0
    /\ results = <<>>
    /\ ret = None
    /\ error = None
    /\ log = <<>>

\* the call: validation, the session, and the first call of _iter_paginated
Call ==
    /\ pc = "call"
    /\ IF ~ValidUsername(username)
       THEN /\ pc' = "raised"
            /\ error' = Some(ValueError)
            /\ UNCHANGED <<phase, next_url, params>>
       ELSE /\ pc' = "get"
            /\ phase' = "repos"
            /\ next_url' = Some(ReposUrl(username.val))
            /\ params' = "repo_params"
            /\ UNCHANGED error
    /\ UNCHANGED <<username, resp, served, repos, idx, count,
                   results, ret, log>>

LogEntry(r, h) ==
    [phase |-> phase, repo |-> idx, url |-> next_url[1], params |-> params,
     status |-> r.status, body |-> r.body,
     err |-> IF h.raised THEN Some(h.error) ELSE None]

\* one turn of _iter_paginated's loop: session.get, the status checks, the
\* decoding, up to the yield
Request ==
    /\ pc = "get"
    /\ Truthy(next_url)
    /\ Len(log) < MaxRequests
    /\ \E a \in Answers(phase) :
        LET r == Response(a)
            h == Handle(r)
        IN  /\ log' = Append(log, LogEntry(r, h))
            /\ resp' = Some(r)
            /\ served' = a.entries
            /\ params' = "None"
            /\ IF h.raised
               THEN pc' = "raised" /\ error' = Some(h.error)
               ELSE pc' = "yielded" /\ UNCHANGED error
    /\ UNCHANGED <<username, phase, next_url, repos, idx, count,
                   results, ret>>

\* the page the generator is suspended on
YieldedPage == Decode(resp[1]).page

\* the body of the caller's for loop over the yielded page
Consume ==
    /\ pc = "yielded"
    /\ IF phase = "repos"
       THEN LET d == Discover(repos, YieldedPage)
            IN  IF d.raised
                THEN /\ pc' = "raised"
                     /\ error' = Some(Exception("AttributeError", "record", <<>>))
                     /\ UNCHANGED <<repos, count>>
                ELSE /\ pc' = "resumed"
                     /\ repos' = d.repos
                     /\ UNCHANGED <<error, count>>
       ELSE /\ pc' = "resumed"
            /\ count' = AddPage(count, YieldedPage)
            /\ UNCHANGED <<error, repos>>
    /\ UNCHANGED <<username, phase, next_url, params, resp, served,
                   idx, results, ret, log>>

\* the generator resumed: the Link header decides the next turn
Resume ==
    /\ pc = "resumed"
    /\ next_url' = NextLink(HeaderGet(resp[1]))
    /\ pc' = IF Truthy(next_url') THEN "get" ELSE "exhausted"
    /\ UNCHANGED <<username, phase, params, resp, served, repos, idx,
                   count, results, ret, error, log>>

\* the counting loop moves to repository k, or the function returns
StartRepo(k, rs) ==
    IF k > Len(repos)
    THEN /\ pc' = "returned"
         /\ ret' = Some(rs)
         /\ UNCHANGED <<phase, idx, count, next_url, params>>
    ELSE /\ pc' = "get"
         /\ phase' = "commits"
         /\ idx' = k
         /\ count' = FreshCount(count)
         /\ next_url' = Some(CommitsUrl(repos[k][2]))
         /\ params' = "commit_params"
         /\ UNCHANGED ret

\* the listing is exhausted: the counting loop starts
ReposDone ==
    /\ pc = "exhausted"
    /\ phase = "repos"
    /\ StartRepo(1, results)
    /\ resp' = None
    /\ served' = <<>>
    /\ UNCHANGED <<username, repos, results, error, log>>

\* a repository's commits are exhausted: its summary is appended
CommitsDone ==
    /\ pc = "exhausted"
    /\ phase = "commits"
    /\ results' = Append(results, RepoCommits(repos[idx][1], count))
    /\ StartRepo(idx + 1, results')
    /\ resp' = None
    /\ served' = <<>>
    /\ UNCHANGED <<username, repos, error, log>>

Next == Call \/ Request \/ Consume \/ Resume \/ ReposDone \/ CommitsDone

Spec == Init /\ [][Next]_vars

-----------------------------------------------------------------------------
(* The Link header on its own: the generator resumed after a first page whose  *)
(* Link header lists any entries of the shape <url>; rel="relation"            *)

RelPrev == <<"p", "r", "e", "v">>

LinkUrls == {UrlNext, UrlLast, UrlComma, UrlEmpty}

LinkRels == {RelNext, RelLast, RelPrev}

LinkEntries == {Entry(u, rel) : u \in LinkUrls, rel \in LinkRels}

FirstPage(es) == Response(Answer("requests", 200, ListBody(<<>>), es))

InitLink ==
    /\ username = PyStr(<<"j">>)
    /\ pc = "resumed"
    /\ phase = "repos"
    /\ next_url = Some(ReposUrl(username.val))
    /\ params = "None"
    /\ \E es \in SeqsUpTo(LinkEntries, MaxEntries) :
        /\ resp = Some(FirstPage(es))
        /\ served = es
        /\ log = <<[phase |-> "repos", repo |-> 0, url |-> next_url[1],
                    params |-> "repo_params", status |-> 200,
                    body |-> ListBody(<<>>), err |-> None]>>
    /\ repos = <<>>
    /\ idx = 0
    /\ count = 0
    /\ results = <<>>
    /\ ret = None
    /\ error = None

SpecLink == InitLink /\ [][Resume]_vars

-----------------------------------------------------------------------------
(* What the log says *)

Range(f) == {f[i] : i \in DOMAIN f}

\* the requests of the listing, and of repository k's commits, in the order issued
ListingLog == SelectSeq(log, LAMBDA e : e.phase = "repos")

CommitsLog(k) == SelectSeq(log, LAMBDA e : e.phase = "commits" /\ e.repo = k)

AllCommitsLog == SelectSeq(log, LAMBDA e : e.phase = "commits")

\* the records of the listing pages, in the order served
Listed == Concat([i \in 1 .. Len(ListingLog) |-> ListingLog[i].body.items])

\* a record whose name and full_name are both strings
WellFormed(rec) ==
    rec.type = "dict" /\ rec.name.type = "str" /\ rec.full_name.type = "str"

Expected == SelectSeq(Listed, WellFormed)

\* the first entry of a Link header whose relation is next, if any
FirstNext(es) ==
    LET hits == {i \in 1 .. Len(es) : es[i].rel = RelNext}
    IN  IF hits = {} THEN None
        ELSE Some(es[CHOOSE i \in hits : \A j \in hits : i <= j].url)

IsSuccess(status) == 200 <= status /\ status < 300

-----------------------------------------------------------------------------
(* C1: the commit count of every summary is the sum of the lengths of the     *)
(* pages served for that repository's commits, each counted once; while a     *)
(* repository is being counted, count is the sum of the pages consumed so far *)
C1_CountIsSumOfPages ==
    /\ \A k \in 1 .. Len(results) :
        results[k].commit_count = SumLen(CommitsLog(k))
    /\ (phase = "commits" /\ pc \in {"resumed", "get", "exhausted"})
        => count = SumLen(CommitsLog(idx))
    /\ pc = "returned" => ret = Some(results) /\ Len(results) = Len(repos)

\* a run that returned two summaries, one of several pages and one of count 0
C1_Witness ==
    /\ pc = "returned"
    /\ \E k \in 1 .. Len(ret[1]) :
        Len(CommitsLog(k)) >= 2 /\ ret[1][k].commit_count >= 2
    /\ \E k \in 1 .. Len(ret[1]) : ret[1][k].commit_count = 0

(* C2: a run that returns gives one summary per well-formed listing record,   *)
(* in the order of the listing pages, and the commits are requested           *)
(* repository by repository in that order                                     *)
C2_SummariesInDiscoveryOrder ==
    LET expected == Expected
        commits  == AllCommitsLog
        first    == SelectSeq(commits, LAMBDA e : e.params = "commit_params")
    IN  /\ pc = "returned" =>
            /\ Len(ret[1]) = Len(expected)
            /\ \A k \in 1 .. Len(expected) :
                    ret[1][k].name = expected[k].name.val
        /\ Len(first) <= Len(expected)
        /\ \A k \in 1 .. Len(first) :
                /\ first[k].url = CommitsUrl(expected[k].full_name.val)
                /\ first[k].repo = k
        /\ \A i \in 1 .. Len(commits) - 1 : commits[i].repo <= commits[i + 1].repo

\* two repositories found on two listing pages, both summarised
C2_Witness ==
    /\ pc = "returned"
    /\ Len(ListingLog) = 2
    /\ Len(ret[1]) = 2
    /\ ret[1][1].name # ret[1][2].name

\* a username that is no string, or holds nothing but whitespace
InvalidUsername(u) ==
    u.type # "str" \/ \A i \in 1 .. Len(u.val) : IsWhitespace(u.val[i])

(* C3: with an absent, empty or blank username the call fails with ValueError *)
(* and no request has been issued                                             *)
C3_InvalidUsernameNoRequest ==
    InvalidUsername(username) =>
        /\ log = <<>>
        /\ pc = "call" \/ (pc = "raised" /\ error = Some(ValueError))

C3_Witness ==
    /\ pc = "raised"
    /\ username = PyStr(<<" ">>)
    /\ error = Some(ValueError)
    /\ log = <<>>

\* all listing requests precede every commits request and none of them failed;
\* a 404 on a listing page ends the run with the not-found error
C4_ListingBeforeCommits ==
    /\ \A i, j \in 1 .. Len(log) :
        (log[i].phase = "commits" /\ log[j].phase = "repos")
            => (j < i /\ log[j].err = None)
    /\ \A j \in 1 .. Len(log) :
        (log[j].phase = "repos" /\ log[j].status = 404) =>
            /\ pc = "raised"
            /\ error = Some(GitHubAPIError(NotFoundText))
            /\ AllCommitsLog = <<>>

\* the counting loop starts only from a listing whose generator is exhausted
C4_CountingStartsAtListingEnd ==
    (phase = "repos" /\ phase' = "commits") => (pc = "exhausted" /\ error = None)

(* C4: every commits request comes after all listing requests, none of which *)
(* failed, and after the listing generator is exhausted; a 404 on any listing *)
(* page ends the run with the not-found error and without any commits request *)
C4_NoCommitsBeforeListingEnds ==
    []C4_ListingBeforeCommits /\ [][C4_CountingStartsAtListingEnd]_vars

\* the listing's second page answered 404
C4_Witness ==
    /\ pc = "raised"
    /\ Len(log) = 2
    /\ log[2].phase = "repos"
    /\ log[2].status = 404
    /\ log[1].body.items # <<>>

\* an answer that is a failure whatever the response class
FailingAnswer(e) == e.status >= 400 \/ e.body.kind # "list"

(* C5: a request that fails is the last request of the run, the run ends with *)
(* that request's error, and nothing is returned                              *)
C5_AllOrNothing ==
    /\ \A i \in 1 .. Len(log) :
        (log[i].err # None \/ FailingAnswer(log[i])) =>
            /\ i = Len(log)
            /\ pc = "raised"
            /\ error = log[i].err
            /\ error # None
    /\ pc = "raised" => ret = None
    /\ ret # None => pc = "returned"

\* the failure came after a repository had been counted
C5_Witness ==
    /\ pc = "raised"
    /\ Len(results) >= 1
    /\ log[Len(log)].err # None
    /\ ret = None

(* C6: every 403 gives GitHubAPIError, with the server's message when the     *)
(* body carries one and the generic text otherwise                            *)
C6_ForbiddenAlwaysTyped ==
    \A i \in 1 .. Len(log) :
        log[i].status = 403 =>
            /\ log[i].err # None
            /\ log[i].err[1].type = "GitHubAPIError"
            /\ IF log[i].body.kind = "dict" /\ log[i].body.message # None
               THEN log[i].body.message[1] \in Range(log[i].err[1].text)
               ELSE DefaultForbiddenText \in Range(log[i].err[1].text)

(* C7: every status other than 404, 403 and 2xx gives the unexpected-status   *)
(* error with the status code and the raw body, and no page                   *)
C7_NonSuccessNeverYields ==
    \A i \in 1 .. Len(log) :
        (log[i].status \notin {403, 404} /\ ~IsSuccess(log[i].status)) =>
            /\ log[i].err # None
            /\ log[i].err[1].type = "GitHubAPIError"
            /\ ToString(log[i].status) \in Range(log[i].err[1].text)
            /\ log[i].body.text \in Range(log[i].err[1].text)

(* C8: after a page the next URL is the URL of the first Link entry whose     *)
(* relation is next, and the pagination stops exactly when there is none      *)
C8_NextIsFirstNextEntry ==
    pc \in {"get", "exhausted"} /\ resp # None =>
        /\ next_url = FirstNext(served)
        /\ pc = "exhausted" <=> FirstNext(served) = None

(* C9: the generator ends only on a page without a next link, so that it      *)
(* yields one page per next link after the first page; only the first request *)
(* of a chain carries the query parameters                                    *)
C9_EndsOnlyWithoutNextLink ==
    /\ pc = "exhausted" => FirstNext(served) = None
    /\ \A i \in 1 .. Len(log) :
        log[i].params # "None" <=>
            (i = 1 \/ log[i - 1].phase # log[i].phase \/ log[i - 1].repo # log[i].repo)

(* C10: no record of a listing page makes the run fail                        *)
C10_MalformedRecordsSkipped ==
    pc = "raised" => error[1].where # "record"

====
